---- MODULE Spec2Model ----
(***************************************************************************)
(* The processing pipeline of mistral-ocr: one command-line invocation     *)
(* (cli.main) builds a fresh OCRProcessor and calls process() on a file or *)
(* a directory.  The model follows one invocation at a time through its    *)
(* blocking points (OCR call, markdown write, metadata write) and keeps    *)
(* the file system (metadata.json, markdown outputs, input sizes) between  *)
(* invocations.                                                            *)
(***************************************************************************)
EXTENDS Integers, Sequences, FiniteSets, TLC

\* Seconds on the wall clock that the model follows (time.time / strftime).
MaxClock == 1

\* Invocations of the command line that the model follows.
MaxRuns == 2

\* Pages of an OCR response, and images on a page.
MaxPages == 2
MaxImages == 2

\* Calls of process() on one OCRProcessor.
MaxCalls == 2

\* config.py: size ceiling in megabytes, and the bytes of one megabyte.
max_file_size_mb == 50
MB == 1024 * 1024

\* The input tree, listed in ascending full-path order (Path ordering).
\* stem is kept as a sequence of characters so that sanitize_filename acts on it.
InputTree ==
    << [path |-> "/in/a.pdf",     under |-> {"/in"},            stem |-> <<"a">>,           suffix |-> ".pdf"],
       [path |-> "/in/b:1.png",   under |-> {"/in"},            stem |-> <<"b", ":", "1">>, suffix |-> ".png"],
       [path |-> "/in/sub/a.png", under |-> {"/in", "/in/sub"}, stem |-> <<"a">>,           suffix |-> ".png"] >>

TreeIdx == 1..Len(InputTree)
Paths == {InputTree[i].path : i \in TreeIdx}
Dirs == {"/in", "/in/sub", "/in/empty"}

\* A path that is neither a file nor a directory, and all that can be given as input.
Missing == {"/in/gone.pdf"}
Inputs == Paths \cup Dirs \cup Missing
Entry(p) == InputTree[CHOOSE i \in TreeIdx : InputTree[i].path = p]

\* The output directory every invocation is pointed at (-o).
OutputDir == "/out"

\* Sizes an input file can have: small, exactly the ceiling, one byte over.
FileSizes == {2 * MB, max_file_size_mb * MB, max_file_size_mb * MB + 1}

VARIABLES
    metadata_json,    \* <OutputDir>/metadata.json
    markdown,         \* markdown files in OutputDir: output path -> source path ("" = absent)
    st_size,          \* size in bytes of each input file
    clock,            \* wall clock, in seconds
    pc,               \* position of the running invocation
    runs,             \* invocations started so far
    input_path,       \* the file or directory given to process() ("" before the first run)
    reprocess,        \* --reprocess
    files_to_process, \* files the run attempts, in order
    idx,              \* position in files_to_process
    errors,           \* OCRProcessor.errors
    processed_files,  \* OCRProcessor.processed_files
    success_count,
    start_time,
    returned,         \* value returned by process_directory (<<>> when none)
    exit_code,        \* exit status of the invocation (-1 while running)
    \* history of the running invocation, read by the properties only
    api_calls,        \* OCR API calls made for each file
    attempted,        \* files handed to process_file
    ocr_failed,       \* files whose OCR call failed
    md_writes,        \* markdown files written
    meta_writes,      \* times metadata.json was opened for writing
    meta_loads,       \* times load_metadata was called
    output_resolved,  \* determine_output_path was called (it creates the default directory)
    start_metadata,   \* metadata.json as it was when the invocation began
    completed,        \* files that succeeded in an earlier invocation that ended normally
    \* state of the component specifications
    discovery,        \* a directory tree being populated, and two get_supported_files calls
    writers,          \* two runs saving to one output directory
    materialized,     \* one save_results call and what it left on disk
    instance          \* one OCRProcessor that is called several times

vars == << metadata_json, markdown, st_size, clock, pc, runs, input_path, reprocess,
           files_to_process, idx, errors, processed_files, success_count,
           start_time, returned, exit_code, api_calls, attempted, ocr_failed,
           md_writes, meta_writes, meta_loads, output_resolved, start_metadata, completed,
           discovery, writers, materialized, instance >>

\* The variables of the processing pipeline, and those of the component specifications.
pipeline == << metadata_json, markdown, st_size, clock, pc, runs, input_path, reprocess,
               files_to_process, idx, errors, processed_files, success_count,
               start_time, returned, exit_code, api_calls, attempted, ocr_failed,
               md_writes, meta_writes, meta_loads, output_resolved, start_metadata,
               completed >>

components == << discovery, writers, materialized, instance >>

\* input_path.is_file()
is_single == input_path \in Paths

\* Mutant: a path that is not a file is taken for a directory.
InputKind_DirByDefault(input) ==
    IF input \in Paths THEN "file" ELSE "dir"

\* What the input path is: exists() / is_file() / is_dir().
InputKind(input) ==
    IF input \in Paths THEN "file"
    ELSE IF input \in Dirs THEN "dir"
    ELSE "missing"

----------------------------------------------------------------------------
\* utils.py

\* sanitize_filename(filename, max_length=None): every invalid character becomes "_".
invalid_chars == {"<", ">", ":", "\"", "/", "\\", "|", "?", "*"}

sanitize_filename(filename) ==
    [i \in 1..Len(filename) |-> IF filename[i] \in invalid_chars THEN "_" ELSE filename[i]]

\* output_dir / f"{base_name}.md"
MarkdownPath(p) == <<OutputDir>> \o sanitize_filename(Entry(p).stem) \o <<".md">>

MarkdownPaths == {MarkdownPath(p) : p \in Paths}

supported_extensions == {".pdf", ".jpg", ".jpeg", ".png", ".webp", ".gif", ".bmp", ".tiff"}

\* Mutant: the list comes back in descending order.
get_supported_files_Descending(directory) ==
    LET keep(e) == directory \in e.under /\ e.suffix \in supported_extensions
        sorted == SelectSeq(InputTree, keep)
    IN  [i \in 1..Len(sorted) |-> sorted[Len(sorted) + 1 - i].path]

\* get_supported_files: the supported files under the directory, sorted by path.
get_supported_files(directory) ==
    LET keep(e) == directory \in e.under /\ e.suffix \in supported_extensions
        sorted == SelectSeq(InputTree, keep)
    IN  [i \in 1..Len(sorted) |-> sorted[i].path]

\* metadata.json that does not exist / that cannot be parsed.
AbsentFile ==
    [state |-> "absent", files_processed |-> <<>>, total_files |-> 0,
     processing_time_seconds |-> 0, errors |-> <<>>, error_count |-> 0,
     last_updated |-> -1]

CorruptFile == [AbsentFile EXCEPT !.state = "corrupt"]

\* Mutant: an unparseable file is read as if it were absent.
LoadRaises_Never(file) == FALSE

\* load_metadata raises (json.JSONDecodeError, a ValueError) on an unparseable file.
LoadRaises(file) == file.state = "corrupt"

\* load_metadata: the parsed file, or the zero-valued default when it is absent.
load_metadata(file) ==
    IF file.state = "ok" THEN file ELSE AbsentFile

\* {item["file"] for item in existing_metadata["files_processed"]}
FileSet(files) == {files[i].file : i \in 1..Len(files)}

\* Mutant: the new record is added without looking for its key.
PutFile_Append(existing_files, new_file) == Append(existing_files, new_file)

\* existing_files[new_file["file"]] = new_file : overwrite in place, or add at the end.
PutFile(existing_files, new_file) ==
    IF new_file.file \in FileSet(existing_files)
    THEN [i \in 1..Len(existing_files) |->
            IF existing_files[i].file = new_file.file THEN new_file ELSE existing_files[i]]
    ELSE Append(existing_files, new_file)

\* The merge loop of save_metadata; every new record is stamped with the time of the save.
RECURSIVE UpdateFiles(_, _, _)
UpdateFiles(existing_files, files_processed, now) ==
    IF files_processed = <<>> THEN existing_files
    ELSE LET new_file == [file |-> Head(files_processed).file,
                          size |-> Head(files_processed).size,
                          output |-> Head(files_processed).output,
                          last_processed |-> now]
         IN  UpdateFiles(PutFile(existing_files, new_file), Tail(files_processed), now)

\* Mutant: the records of earlier runs are not merged in.
save_metadata_Overwrite(file, files_processed, processing_time, errs, now) ==
    LET existing_metadata == load_metadata(file)
        existing_files == UpdateFiles(<<>>, files_processed, now)
    IN  [state |-> "ok",
         files_processed |-> existing_files,
         total_files |-> Len(existing_files),
         processing_time_seconds |-> existing_metadata.processing_time_seconds + processing_time,
         errors |-> errs,
         error_count |-> Len(errs),
         last_updated |-> now]

\* Mutant: the errors of the current run are appended to those already saved.
save_metadata_KeepsErrors(file, files_processed, processing_time, errs, now) ==
    LET existing_metadata == load_metadata(file)
        existing_files == UpdateFiles(existing_metadata.files_processed, files_processed, now)
        all_errors == existing_metadata.errors \o errs
    IN  [state |-> "ok",
         files_processed |-> existing_files,
         total_files |-> Len(existing_files),
         processing_time_seconds |-> existing_metadata.processing_time_seconds + processing_time,
         errors |-> all_errors,
         error_count |-> Len(all_errors),
         last_updated |-> now]

\* Mutant: every record, old or new, is stamped with the time of the save.
save_metadata_Restamp(file, files_processed, processing_time, errs, now) ==
    LET existing_metadata == load_metadata(file)
        merged == UpdateFiles(existing_metadata.files_processed, files_processed, now)
        existing_files == [i \in 1..Len(merged) |-> [merged[i] EXCEPT !.last_processed = now]]
    IN  [state |-> "ok",
         files_processed |-> existing_files,
         total_files |-> Len(existing_files),
         processing_time_seconds |-> existing_metadata.processing_time_seconds + processing_time,
         errors |-> errs,
         error_count |-> Len(errs),
         last_updated |-> now]

\* save_metadata: the content written to metadata.json.
save_metadata(file, files_processed, processing_time, errs, now) ==
    LET existing_metadata == load_metadata(file)
        existing_files == UpdateFiles(existing_metadata.files_processed, files_processed, now)
    IN  [state |-> "ok",
         files_processed |-> existing_files,
         total_files |-> Len(existing_files),
         processing_time_seconds |-> existing_metadata.processing_time_seconds + processing_time,
         errors |-> errs,
         error_count |-> Len(errs),
         last_updated |-> now]

----------------------------------------------------------------------------
\* config.py

\* Config.validate_file_size raises when size / MB > max_file_size_mb
\* (the division by 2^20 is exact in floating point).
FileTooLarge(size) == size > max_file_size_mb * MB

----------------------------------------------------------------------------
\* processor.py

\* Mutant: the skip check is missing.
AlreadyProcessed_Never(path, existing_files_set, rp) == FALSE

\* Mutant: the skip check ignores --reprocess.
AlreadyProcessed_IgnoresFlag(path, existing_files_set, rp) == path \in existing_files_set

\* str(path) in existing_files_set and not reprocess
AlreadyProcessed(path, existing_files_set, rp) ==
    path \in existing_files_set /\ ~rp

\* Mutant: the directory run does not filter.
FilesToProcess_All(files, existing_files_set, rp) == files

\* The filter loop of process_directory.
FilesToProcess(files, existing_files_set, rp) ==
    SelectSeq(files, LAMBDA p : ~AlreadyProcessed(p, existing_files_set, rp))

\* Mutant: the exception is swallowed without a record.
RecordError_Dropped(errs, path, e) == errs

\* self.errors.append({"file": ..., "error": ...})
RecordError(errs, path, e) == Append(errs, [file |-> path, error |-> e])

\* self.processed_files.append({"file": ..., "size": ..., "output": ...})
RecordFile(files, path, size) ==
    Append(files, [file |-> path, size |-> size, output |-> MarkdownPath(path)])

----------------------------------------------------------------------------
\* File discovery (utils.get_supported_files) over a tree that is being populated.

\* File and directory names, as the characters they are made of.
name_in == <<"i", "n">>
name_a == <<"a">>
name_a_pdf == <<"a", ".", "p", "d", "f">>
name_x_PNG == <<"x", ".", "P", "N", "G">>
name_B_gif == <<"B", ".", "g", "i", "f">>
name_b_pdf == <<"b", ".", "p", "d", "f">>
name_c_txt == <<"c", ".", "t", "x", "t">>
name_dot_pdf == <<".", "p", "d", "f">>

\* What can be created under /in: parts is the path from the filesystem root,
\* parent the entry that must exist first (0: /in itself, which always exists).
\*   1 /in/a.pdf        file
\*   2 /in/a            directory
\*   3 /in/a/x.PNG      file, upper-case extension
\*   4 /in/B.gif        file
\*   5 /in/b.pdf        directory named like a supported file
\*   6 /in/b.pdf/c.txt  file, unsupported extension
\*   7 /in/.pdf         file whose name is only a leading dot and letters
FsTree ==
    << [parts |-> <<name_in, name_a_pdf>>, is_file |-> TRUE, parent |-> 0],
       [parts |-> <<name_in, name_a>>, is_file |-> FALSE, parent |-> 0],
       [parts |-> <<name_in, name_a, name_x_PNG>>, is_file |-> TRUE, parent |-> 2],
       [parts |-> <<name_in, name_B_gif>>, is_file |-> TRUE, parent |-> 0],
       [parts |-> <<name_in, name_b_pdf>>, is_file |-> FALSE, parent |-> 0],
       [parts |-> <<name_in, name_b_pdf, name_c_txt>>, is_file |-> TRUE, parent |-> 5],
       [parts |-> <<name_in, name_dot_pdf>>, is_file |-> TRUE, parent |-> 0] >>

FsIds == DOMAIN FsTree

\* The directories discovery can be asked about.
FsRoots == {<<name_in>>, <<name_in, name_a>>, <<name_in, name_b_pdf>>}

\* ord(c) of the characters that occur in the names, and of the separator.
CharCode ==
    [c \in {".", "/", "B", "G", "N", "P", "a", "b", "c", "d", "f", "g", "i", "n",
            "p", "t", "x"} |->
        CASE c = "." -> 46 [] c = "/" -> 47
          [] c = "B" -> 66 [] c = "G" -> 71 [] c = "N" -> 78 [] c = "P" -> 80
          [] c = "a" -> 97 [] c = "b" -> 98 [] c = "c" -> 99 [] c = "d" -> 100
          [] c = "f" -> 102 [] c = "g" -> 103 [] c = "i" -> 105 [] c = "n" -> 110
          [] c = "p" -> 112 [] c = "t" -> 116 [] c = "x" -> 120]

\* str.lower() on one character.
lower(c) ==
    CASE c = "B" -> "b" [] c = "G" -> "g" [] c = "N" -> "n" [] c = "P" -> "p"
      [] OTHER -> c

\* str < str: at the first position where they differ s has the smaller
\* character, or s ends there and t goes on.
StrLess(s, t) ==
    \E k \in 1..Len(t) :
        /\ \A j \in 1..(k - 1) : j <= Len(s) /\ s[j] = t[j]
        /\ \/ k = Len(s) + 1
           \/ k <= Len(s) /\ CharCode[s[k]] < CharCode[t[k]]

\* str(path): the components, each after a separator.
RECURSIVE str(_)
str(parts) ==
    IF parts = <<>> THEN <<>>
    ELSE str(SubSeq(parts, 1, Len(parts) - 1)) \o <<"/">> \o parts[Len(parts)]

\* PurePath.__lt__: the lists of path components are compared, component by component.
PathLess(p, q) ==
    \E k \in 1..Len(q) :
        /\ \A j \in 1..(k - 1) : j <= Len(p) /\ p[j] = q[j]
        /\ \/ k = Len(p) + 1
           \/ k <= Len(p) /\ StrLess(p[k], q[k])

\* PurePath.suffix: from the last dot of the name, unless that dot is the first
\* or the last character.
suffix(parts) ==
    LET name == parts[Len(parts)]
        dots == {k \in 1..Len(name) : name[k] = "."}
        i == IF dots = {} THEN 0 ELSE CHOOSE k \in dots : \A m \in dots : m <= k
    IN  IF 1 < i /\ i < Len(name) THEN SubSeq(name, i, Len(name)) ELSE <<>>

\* The supported extensions, as characters.
supported_suffixes ==
    { <<".", "p", "d", "f">>, <<".", "j", "p", "g">>, <<".", "j", "p", "e", "g">>,
      <<".", "p", "n", "g">>, <<".", "w", "e", "b", "p">>, <<".", "g", "i", "f">>,
      <<".", "b", "m", "p">>, <<".", "t", "i", "f", "f">> }

\* Mutant: the list is returned in the order the directory walk produced it.
sorted_AsFound(files) == files

\* sorted(files): insertion into an ascending list, by PurePath.__lt__.
RECURSIVE sorted(_)
sorted(files) ==
    IF files = <<>> THEN <<>>
    ELSE LET x == files[Len(files)]
             rest == sorted(SubSeq(files, 1, Len(files) - 1))
             before == SelectSeq(rest, LAMBDA p : ~PathLess(x, p))
             after == SelectSeq(rest, LAMBDA p : PathLess(x, p))
         IN  before \o <<x>> \o after

\* Strictly below the directory.
IsUnder(parts, directory) ==
    /\ Len(parts) > Len(directory)
    /\ SubSeq(parts, 1, Len(directory)) = directory

Reverse(seq) == [k \in 1..Len(seq) |-> seq[Len(seq) + 1 - k]]

\* directory.rglob("*"): every entry below the directory, in the order the
\* filesystem lists them: oldest first or newest first, depending on the filesystem.
rglob(directory, created, readdir) ==
    LET listed == IF readdir = "oldest" THEN created ELSE Reverse(created)
        below == SelectSeq(listed, LAMBDA e : IsUnder(FsTree[e].parts, directory))
    IN  [k \in 1..Len(below) |-> FsTree[below[k]]]

\* get_supported_files(directory), on the tree made of the entries in `created`.
discover(directory, created, readdir) ==
    LET walk == rglob(directory, created, readdir)
        keep(file_path) ==
            /\ file_path.is_file
            /\ [k \in 1..Len(suffix(file_path.parts)) |-> lower(suffix(file_path.parts)[k])]
                   \in supported_suffixes
        files == SelectSeq(walk, keep)
    IN  sorted([k \in 1..Len(files) |-> files[k].parts])

DiscoveryInit == [created |-> <<>>, root |-> <<>>, calls |-> <<>>]

\* A file or directory is created under /in; the calls made so far are forgotten.
Create(e) ==
    /\ \A k \in 1..Len(discovery.created) : discovery.created[k] # e
    /\ FsTree[e].parent # 0 =>
           \E k \in 1..Len(discovery.created) : discovery.created[k] = FsTree[e].parent
    /\ discovery' = [created |-> Append(discovery.created, e), root |-> <<>>,
                     calls |-> <<>>]
    /\ UNCHANGED << pipeline, writers, materialized, instance >>

\* One call of get_supported_files on a directory that exists; the second call is
\* on the same directory, and nothing is created in between.
Discover(directory, readdir) ==
    /\ Len(discovery.calls) < 2
    /\ directory = <<name_in>>
           \/ \E k \in 1..Len(discovery.created) :
                  FsTree[discovery.created[k]].parts = directory
    /\ discovery.calls # <<>> => directory = discovery.root
    /\ discovery' =
           [discovery EXCEPT
                !.root = directory,
                !.calls = Append(@, [readdir |-> readdir,
                                     files |-> discover(directory, discovery.created,
                                                        readdir)])]
    /\ UNCHANGED << pipeline, writers, materialized, instance >>

NextDiscovery ==
    \/ \E e \in FsIds : Create(e)
    \/ \E directory \in FsRoots, readdir \in {"oldest", "newest"} :
           Discover(directory, readdir)

----------------------------------------------------------------------------
\* Two runs that reach save_metadata on the same output directory.

Writers == {"run1", "run2"}

\* What a run can have in processed_files when it saves.
ProcessedLists ==
    { RecordFile(<<>>, "/in/a.pdf", 2 * MB),
      RecordFile(<<>>, "/in/b:1.png", 2 * MB),
      RecordFile(RecordFile(<<>>, "/in/a.pdf", 2 * MB), "/in/b:1.png", 2 * MB) }

\* metadata.json before the two saves: absent, or left by an earlier run.
EarlierFiles ==
    { AbsentFile,
      save_metadata(AbsentFile, RecordFile(<<>>, "/in/sub/a.png", 2 * MB), 0, <<>>, 0) }

\* No run is saving.
WritersIdle ==
    [file |-> AbsentFile,
     files_processed |-> [w \in Writers |-> <<>>],
     at |-> [w \in Writers |-> "done"],
     existing_metadata |-> [w \in Writers |-> AbsentFile],
     before |-> AbsentFile,
     saved |-> <<>>,
     overlapped |-> FALSE]

\* Both runs are about to call save_metadata.
WritersInit ==
    { [WritersIdle EXCEPT !.file = f, !.before = f,
                          !.files_processed = [w \in Writers |->
                                                  IF w = "run1" THEN l1 ELSE l2],
                          !.at = [w \in Writers |-> "call"]] :
        f \in EarlierFiles, l1 \in ProcessedLists, l2 \in ProcessedLists }

\* save_metadata, first half: existing_metadata = load_metadata(output_dir).
Load(w) ==
    /\ writers.at[w] = "call"
    /\ writers' = [writers EXCEPT
                      !.at[w] = "loaded",
                      !.existing_metadata[w] = writers.file,
                      !.overlapped = @ \/ \E o \in Writers \ {w} : writers.at[o] = "loaded"]
    /\ UNCHANGED << pipeline, discovery, materialized, instance >>

\* save_metadata, second half: merge into what was loaded, and write the file.
Write(w) ==
    /\ writers.at[w] = "loaded"
    /\ writers' = [writers EXCEPT
                      !.at[w] = "done",
                      !.file = save_metadata(writers.existing_metadata[w],
                                             writers.files_processed[w], 1, <<>>,
                                             Len(writers.saved) + 1),
                      !.saved = Append(@, w)]
    /\ UNCHANGED << pipeline, discovery, materialized, instance >>

NextRace ==
    \/ \E w \in Writers : Load(w)
    \/ \E w \in Writers : Write(w)

----------------------------------------------------------------------------
\* One save_results call (processor.py), page by page and image by image.

\* An image of the response: TRUE when the object has a base64 attribute.
ImageLists == UNION {[1..n -> BOOLEAN] : n \in 0..MaxImages}

\* response.pages: for each page its images; page.index is the position less one.
Responses == UNION {[1..n -> ImageLists] : n \in 1..MaxPages}

\* f"page{page.index + 1}_img{idx + 1}.png", from the position of the page and of
\* the image.
image_filename(page, image) == <<"page", page, "_img", image, ".png">>

\* No save_results call is under way.
MaterializedIdle ==
    [include_images |-> FALSE, pages |-> <<>>, page |-> 1, image |-> 0,
     images_dir |-> FALSE, image_files |-> {}, markdown_content |-> <<>>,
     markdown_written |-> FALSE, at |-> "done"]

\* save_results is called with a response, with or without --include-images.
MaterializedInit ==
    { [MaterializedIdle EXCEPT !.include_images = include, !.pages = response,
                               !.at = "pages"] :
        include \in BOOLEAN, response \in Responses }

\* The loop moves to the image after this one, or to the next page.
NextImage ==
    IF materialized.image < Len(materialized.pages[materialized.page])
    THEN [materialized EXCEPT !.image = @ + 1]
    ELSE [materialized EXCEPT !.page = @ + 1, !.image = 0]

\* for page in response.pages: the page text, then images_dir.mkdir when images
\* are enabled and the page has any.
BeginPage ==
    /\ materialized.at = "pages"
    /\ materialized.page <= Len(materialized.pages)
    /\ materialized.image = 0
    /\ materialized' =
           IF materialized.include_images /\ materialized.pages[materialized.page] # <<>>
           THEN [materialized EXCEPT !.images_dir = TRUE, !.image = 1]
           ELSE [materialized EXCEPT !.page = @ + 1]
    /\ UNCHANGED << pipeline, discovery, writers, instance >>

\* for idx, image in enumerate(page.images): an image with a base64 attribute is
\* written by save_base64_image and referenced in the markdown; any other is passed over.
SaveImage ==
    /\ materialized.at = "pages"
    /\ materialized.image >= 1
    /\ LET name == image_filename(materialized.page, materialized.image)
       IN  materialized' =
               IF materialized.pages[materialized.page][materialized.image]
               THEN [NextImage EXCEPT !.images_dir = TRUE,
                                      !.image_files = @ \cup {name},
                                      !.markdown_content = Append(@, name)]
               ELSE NextImage
    /\ UNCHANGED << pipeline, discovery, writers, instance >>

\* save_base64_image raises (the data does not decode, or the file cannot be
\* written): the exception leaves save_results.
SaveImageRaises ==
    /\ materialized.at = "pages"
    /\ materialized.image >= 1
    /\ materialized.pages[materialized.page][materialized.image]
    /\ materialized' = [materialized EXCEPT !.at = "raised"]
    /\ UNCHANGED << pipeline, discovery, writers, instance >>

\* After the last page: the markdown file is written and save_results returns.
WriteMarkdown ==
    /\ materialized.at = "pages"
    /\ materialized.page > Len(materialized.pages)
    /\ materialized' = [materialized EXCEPT !.markdown_written = TRUE, !.at = "done"]
    /\ UNCHANGED << pipeline, discovery, writers, instance >>

NextImages ==
    \/ BeginPage
    \/ SaveImage
    \/ SaveImageRaises
    \/ WriteMarkdown

----------------------------------------------------------------------------
\* One OCRProcessor on which process() is called several times.

\* The output directories the calls can be given.
OutputDirs == {"/out", "/out2"}

\* The inputs of the calls: a file, and two directories.
ReuseInputs == {"/in/a.pdf", "/in", "/in/sub"}

\* OCRProcessor.__init__: empty accumulators; no call made, no metadata.json anywhere.
InstanceNew ==
    [errors |-> <<>>, processed_files |-> <<>>,
     metadata |-> [o \in OutputDirs |-> AbsentFile],
     at |-> "idle", calls |-> 0, output_dir |-> "/out", is_file |-> FALSE,
     files_to_process |-> <<>>, idx |-> 0, success_count |-> 0,
     \* history of the current call
     call_files |-> <<>>, call_errors |-> <<>>, before |-> AbsentFile,
     saved |-> FALSE]

\* A call begins: what it leaves of the instance, and its fresh history.
ReuseBegin(output) ==
    [instance EXCEPT !.calls = @ + 1, !.output_dir = output, !.success_count = 0,
                     !.files_to_process = <<>>, !.idx = 0,
                     !.call_files = <<>>, !.call_errors = <<>>,
                     !.before = instance.metadata[output], !.saved = FALSE]

\* process(input_path, output_path, reprocess), up to its first process_file.
ReuseProcess(input, output, rp) ==
    /\ instance.at = "idle"
    /\ instance.calls < MaxCalls
    /\ LET existing_files_set ==
               FileSet(load_metadata(instance.metadata[output]).files_processed)
           files == IF InputKind(input) = "file" THEN <<input>>
                    ELSE get_supported_files(input)
           to_process == FilesToProcess(files, existing_files_set, rp)
       IN  instance' =
               IF to_process = <<>>
               THEN [ReuseBegin(output) EXCEPT !.is_file = InputKind(input) = "file"]
               ELSE [ReuseBegin(output) EXCEPT !.is_file = InputKind(input) = "file",
                                               !.at = "process_file",
                                               !.files_to_process = to_process,
                                               !.idx = 1]
    /\ UNCHANGED << pipeline, discovery, writers, materialized >>

\* One file of the call: process_file, then save_results and the append to
\* self.processed_files, or the append to self.errors.
ReuseProcessFile(outcome) ==
    /\ instance.at = "process_file"
    /\ LET file_path == instance.files_to_process[instance.idx]
           record == [file |-> file_path, size |-> st_size[file_path],
                      output |-> <<instance.output_dir>> \o Tail(MarkdownPath(file_path))]
           last == instance.idx = Len(instance.files_to_process)
           after == IF outcome = "ok"
                    THEN [instance EXCEPT
                              !.processed_files = Append(@, record),
                              !.call_files = Append(@, record),
                              !.success_count = @ + 1]
                    ELSE [instance EXCEPT
                              !.errors = RecordError(@, file_path, "api"),
                              !.call_errors = RecordError(@, file_path, "api")]
       IN  instance' =
               IF ~last THEN [after EXCEPT !.idx = @ + 1]
               ELSE IF instance.is_file /\ outcome # "ok" THEN [after EXCEPT !.at = "idle"]
               ELSE [after EXCEPT !.at = "save_metadata"]
    /\ UNCHANGED << pipeline, discovery, writers, materialized >>

\* save_metadata(output_path, self.processed_files, processing_time, self.errors)
ReuseSaveMetadata ==
    /\ instance.at = "save_metadata"
    /\ instance' =
           [instance EXCEPT
                !.at = "idle",
                !.saved = TRUE,
                !.metadata[instance.output_dir] =
                    save_metadata(@, instance.processed_files, 0, instance.errors,
                                  instance.calls)]
    /\ UNCHANGED << pipeline, discovery, writers, materialized >>

NextReuse ==
    \/ \E input \in ReuseInputs, output \in OutputDirs, rp \in BOOLEAN :
           ReuseProcess(input, output, rp)
    \/ \E outcome \in {"ok", "api"} : ReuseProcessFile(outcome)
    \/ ReuseSaveMetadata

----------------------------------------------------------------------------
\* The processing pipeline

Running == pc \in {"process_file", "save_results", "save_metadata"}

InitPipeline ==
    /\ metadata_json = AbsentFile
    /\ markdown = [m \in MarkdownPaths |-> ""]
    /\ st_size = [p \in Paths |-> 2 * MB]
    /\ clock = 0
    /\ pc = "idle"
    /\ runs = 0
    /\ input_path = ""
    /\ reprocess = FALSE
    /\ files_to_process = <<>>
    /\ idx = 0
    /\ errors = <<>>
    /\ processed_files = <<>>
    /\ success_count = 0
    /\ start_time = 0
    /\ returned = <<>>
    /\ exit_code = 0
    /\ api_calls = [p \in Paths |-> 0]
    /\ attempted = {}
    /\ ocr_failed = {}
    /\ md_writes = 0
    /\ meta_writes = 0
    /\ meta_loads = 0
    /\ output_resolved = FALSE
    /\ start_metadata = AbsentFile
    /\ completed = {}

Init ==
    /\ InitPipeline
    /\ discovery = DiscoveryInit
    /\ writers = WritersIdle
    /\ materialized = MaterializedIdle
    /\ instance = InstanceNew

\* The invocation before this one ended normally after saving its records.
EndedNormally == ~Running /\ exit_code = 0 /\ meta_writes = 1

\* What every invocation starts from: a new OCRProcessor (cli.main) and a fresh history.
NewInvocation(input, rp) ==
    /\ runs < MaxRuns
    /\ runs' = runs + 1
    /\ input_path' = input
    /\ reprocess' = rp
    /\ errors' = <<>>
    /\ processed_files' = <<>>
    /\ success_count' = 0
    /\ start_time' = clock
    /\ api_calls' = [p \in Paths |-> 0]
    /\ attempted' = {}
    /\ ocr_failed' = {}
    /\ md_writes' = 0
    /\ meta_writes' = 0
    /\ start_metadata' = metadata_json
    /\ completed' = IF EndedNormally THEN completed \cup FileSet(processed_files)
                    ELSE completed
    /\ UNCHANGED << metadata_json, markdown, st_size, clock, components >>

\* The invocation ends before its first file.
EndEarly(code, ret) ==
    /\ pc' = "exited"
    /\ exit_code' = code
    /\ returned' = ret
    /\ files_to_process' = <<>>
    /\ idx' = 0

BeginLoop(files) ==
    /\ pc' = "process_file"
    /\ exit_code' = -1
    /\ returned' = <<>>
    /\ files_to_process' = files
    /\ idx' = 1

\* cli.main with an input path that does not exist: ValueError before the
\* OCRProcessor is built, exit status 1.
MainMissing(input, rp) ==
    /\ ~Running
    /\ InputKind(input) = "missing"
    /\ NewInvocation(input, rp)
    /\ EndEarly(1, <<>>)
    /\ meta_loads' = 0
    /\ output_resolved' = FALSE

\* cli.main -> process(), single-file branch, up to the call of process_file.
MainFile(input, rp) ==
    /\ ~Running
    /\ InputKind(input) = "file"
    /\ NewInvocation(input, rp)
    /\ output_resolved' = TRUE
    /\ meta_loads' = 1
    /\ IF LoadRaises(metadata_json)
       THEN EndEarly(1, <<>>)
       ELSE LET existing_files_set == FileSet(load_metadata(metadata_json).files_processed)
            IN  IF AlreadyProcessed(input, existing_files_set, rp)
                THEN EndEarly(0, <<>>)
                ELSE BeginLoop(<<input>>)

\* cli.main -> process() -> process_directory(), up to the first process_file.
MainDirectory(input, rp) ==
    /\ ~Running
    /\ InputKind(input) = "dir"
    /\ NewInvocation(input, rp)
    /\ output_resolved' = (get_supported_files(input) # <<>>)
    /\ meta_loads' = IF get_supported_files(input) # <<>> THEN 1 ELSE 0
    /\ LET files == get_supported_files(input)
       IN  IF files = <<>>
           THEN EndEarly(0, <<0, 0>>)
           ELSE IF LoadRaises(metadata_json)
           THEN EndEarly(1, <<>>)
           ELSE LET existing_files_set == FileSet(load_metadata(metadata_json).files_processed)
                    to_process == FilesToProcess(files, existing_files_set, rp)
                IN  IF to_process = <<>>
                    THEN EndEarly(0, <<0, 0>>)
                    ELSE BeginLoop(to_process)

\* After a file that produced no result: the next file, the final save, or (single
\* file) the end of process() without a save.
AfterFailure ==
    IF is_single
    THEN /\ pc' = "exited"
         /\ exit_code' = 0
         /\ idx' = idx
    ELSE IF idx < Len(files_to_process)
    THEN /\ pc' = "process_file"
         /\ idx' = idx + 1
         /\ exit_code' = exit_code
    ELSE /\ pc' = "save_metadata"
         /\ idx' = idx
         /\ exit_code' = exit_code

\* process_file: size check, data URI, OCR call; any exception becomes an error record.
\* outcome is what the OCR service does: the call fails ("api") or a response
\* comes back ("ok").
process_file(outcome) ==
    /\ pc = "process_file"
    /\ LET file_path == files_to_process[idx]
       IN  /\ attempted' = attempted \cup {file_path}
           /\ IF FileTooLarge(st_size[file_path])
              THEN /\ errors' = RecordError(errors, file_path, "size")
                   /\ AfterFailure
                   /\ UNCHANGED << api_calls, ocr_failed >>
              ELSE IF outcome = "api"
              THEN /\ api_calls' = [api_calls EXCEPT ![file_path] = @ + 1]
                   /\ ocr_failed' = ocr_failed \cup {file_path}
                   /\ errors' = RecordError(errors, file_path, "api")
                   /\ AfterFailure
              ELSE /\ api_calls' = [api_calls EXCEPT ![file_path] = @ + 1]
                   /\ pc' = "save_results"
                   /\ UNCHANGED << errors, ocr_failed, idx, exit_code >>
    /\ UNCHANGED << metadata_json, markdown, st_size, clock, runs, input_path, reprocess,
                    files_to_process, processed_files, success_count, start_time,
                    returned, md_writes, meta_writes, meta_loads, output_resolved, start_metadata, completed, components >>

\* Mutant: the metadata is saved after every file.
save_results_Streaming ==
    /\ pc = "save_results"
    /\ LET file_path == files_to_process[idx]
           files == RecordFile(processed_files, file_path, st_size[file_path])
       IN  /\ markdown' = [markdown EXCEPT ![MarkdownPath(file_path)] = file_path]
           /\ processed_files' = files
           /\ metadata_json' = save_metadata(metadata_json, files, clock - start_time,
                                              errors, clock)
    /\ md_writes' = md_writes + 1
    /\ success_count' = IF is_single THEN success_count ELSE success_count + 1
    /\ IF ~is_single /\ idx < Len(files_to_process)
       THEN pc' = "process_file" /\ idx' = idx + 1
       ELSE pc' = "save_metadata" /\ idx' = idx
    /\ UNCHANGED << st_size, clock, runs, input_path, reprocess, files_to_process,
                    errors, start_time, returned, exit_code, api_calls, attempted,
                    ocr_failed, meta_writes, meta_loads, output_resolved, start_metadata, completed, components >>

\* save_results succeeds, then the caller appends the file record and moves on.
save_results ==
    /\ pc = "save_results"
    /\ LET file_path == files_to_process[idx]
       IN  /\ markdown' = [markdown EXCEPT ![MarkdownPath(file_path)] = file_path]
           /\ processed_files' = RecordFile(processed_files, file_path, st_size[file_path])
    /\ md_writes' = md_writes + 1
    /\ success_count' = IF is_single THEN success_count ELSE success_count + 1
    /\ IF ~is_single /\ idx < Len(files_to_process)
       THEN pc' = "process_file" /\ idx' = idx + 1
       ELSE pc' = "save_metadata" /\ idx' = idx
    /\ UNCHANGED << metadata_json, st_size, clock, runs, input_path, reprocess, files_to_process,
                    errors, start_time, returned, exit_code, api_calls, attempted,
                    ocr_failed, meta_writes, meta_loads, output_resolved, start_metadata, completed, components >>

\* save_results raises (the markdown file cannot be written): nothing catches it
\* before cli.main, which exits with status 1.
save_results_raises ==
    /\ pc = "save_results"
    /\ pc' = "exited"
    /\ exit_code' = 1
    /\ UNCHANGED << metadata_json, markdown, st_size, clock, runs, input_path, reprocess,
                    files_to_process, idx, errors, processed_files, success_count,
                    start_time, returned, api_calls, attempted, ocr_failed, md_writes,
                    meta_writes, meta_loads, output_resolved, start_metadata, completed, components >>

\* The save_metadata call that ends a run, and the return to cli.main.
SaveMetadata ==
    /\ pc = "save_metadata"
    /\ pc' = "exited"
    /\ meta_loads' = meta_loads + 1
    /\ IF LoadRaises(metadata_json)
       THEN /\ exit_code' = 1
            /\ UNCHANGED << metadata_json, meta_writes, returned >>
       ELSE /\ metadata_json' = save_metadata(metadata_json, processed_files,
                                              clock - start_time, errors, clock)
            /\ meta_writes' = meta_writes + 1
            /\ exit_code' = 0
            /\ returned' = IF is_single THEN <<>>
                           ELSE <<success_count, Len(files_to_process)>>
    /\ UNCHANGED << markdown, st_size, clock, runs, input_path, reprocess, files_to_process, idx,
                    errors, processed_files, success_count, start_time, api_calls,
                    attempted, ocr_failed, md_writes, output_resolved, start_metadata,
                    completed, components >>

\* Ctrl-C while the run waits on a file: cli.main exits with status 130.
KeyboardInterrupt ==
    /\ Running
    /\ pc' = "exited"
    /\ exit_code' = 130
    /\ UNCHANGED << metadata_json, markdown, st_size, clock, runs, input_path, reprocess,
                    files_to_process, idx, errors, processed_files, success_count,
                    start_time, returned, api_calls, attempted, ocr_failed, md_writes,
                    meta_writes, meta_loads, output_resolved, start_metadata, completed, components >>

\* Ctrl-C between open(metadata_path, "w") and the end of json.dump: the file is
\* left truncated.
InterruptedWrite ==
    /\ pc = "save_metadata"
    /\ ~LoadRaises(metadata_json)
    /\ pc' = "exited"
    /\ exit_code' = 130
    /\ metadata_json' = CorruptFile
    /\ meta_writes' = meta_writes + 1
    /\ meta_loads' = meta_loads + 1
    /\ UNCHANGED << markdown, st_size, clock, runs, input_path, reprocess, files_to_process, idx,
                    errors, processed_files, success_count, start_time, returned,
                    api_calls, attempted, ocr_failed, md_writes, output_resolved,
                    start_metadata, completed, components >>

\* A second passes while an invocation is under way (time.time / strftime are
\* read by a running invocation only).
Tick ==
    /\ Running
    /\ clock < MaxClock
    /\ clock' = clock + 1
    /\ UNCHANGED << metadata_json, markdown, st_size, pc, runs, input_path, reprocess,
                    files_to_process, idx, errors, processed_files, success_count,
                    start_time, returned, exit_code, api_calls, attempted, ocr_failed,
                    md_writes, meta_writes, meta_loads, output_resolved, start_metadata, completed, components >>

\* The input file whose size changes between invocations.
Resizable == {"/in/a.pdf"}

\* Between invocations an input file is replaced by one of another size; pc is
\* "exited" only as long as the input tree is the one the last invocation saw.
Modify(p, size) ==
    /\ ~Running
    /\ st_size[p] # size
    /\ st_size' = [st_size EXCEPT ![p] = size]
    /\ pc' = "idle"
    /\ UNCHANGED << metadata_json, markdown, clock, runs, input_path, reprocess,
                    files_to_process, idx, errors, processed_files, success_count,
                    start_time, returned, exit_code, api_calls, attempted, ocr_failed,
                    md_writes, meta_writes, meta_loads, output_resolved, start_metadata, completed, components >>

Next ==
    \/ \E input \in Inputs, rp \in BOOLEAN : MainMissing(input, rp)
    \/ \E input \in Inputs, rp \in BOOLEAN : MainFile(input, rp)
    \/ \E input \in Inputs, rp \in BOOLEAN : MainDirectory(input, rp)
    \/ \E outcome \in {"ok", "api"} : process_file(outcome)
    \/ save_results
    \/ save_results_raises
    \/ SaveMetadata
    \/ KeyboardInterrupt
    \/ InterruptedWrite
    \/ Tick
    \/ \E p \in Resizable, size \in FileSizes : Modify(p, size)

Spec == Init /\ [][Next]_vars

\* File discovery alone.
SpecDiscovery == Init /\ [][NextDiscovery]_vars

\* Two concurrent saves alone.
InitRace ==
    /\ InitPipeline
    /\ discovery = DiscoveryInit
    /\ writers \in WritersInit
    /\ materialized = MaterializedIdle
    /\ instance = InstanceNew

SpecRace == InitRace /\ [][NextRace]_vars

\* One save_results call alone.
InitImages ==
    /\ InitPipeline
    /\ discovery = DiscoveryInit
    /\ writers = WritersIdle
    /\ materialized \in MaterializedInit
    /\ instance = InstanceNew

SpecImages == InitImages /\ [][NextImages]_vars

\* One OCRProcessor called several times.
SpecReuse == Init /\ [][NextReuse]_vars

----------------------------------------------------------------------------
\* Properties

Range(seq) == {seq[i] : i \in 1..Len(seq)}

\* Positions of the records of file F.
RecordsOf(files, F) == {i \in 1..Len(files) : files[i].file = F}

\* The record a save at time `now` writes for an entry of processed_files.
Stamped(rec, now) ==
    [file |-> rec.file, size |-> rec.size, output |-> rec.output, last_processed |-> now]

StartKeys == FileSet(start_metadata.files_processed)

NoApiCall == \A p \in Paths : api_calls[p] = 0

\* F is the input of the invocation, or lies under its input directory.
InInput(F) == input_path = F \/ F \in Range(get_supported_files(input_path))

SizeRejected(F) == [file |-> F, error |-> "size"] \in Range(errors)

\* The invocation has ended normally and saved its metadata.
SavedRun == pc = "exited" /\ exit_code = 0 /\ meta_writes = 1

\* C1: a file that an earlier, normally ended invocation processed successfully is
\* never sent to the OCR API by an invocation without --reprocess (single file or
\* directory), and a readable metadata.json holds exactly one record for it.
C1_Idempotence ==
    \A F \in completed :
        /\ ~reprocess => api_calls[F] = 0 /\ F \notin attempted
        /\ metadata_json.state # "absent"
        /\ metadata_json.state = "ok" =>
               Cardinality(RecordsOf(metadata_json.files_processed, F)) = 1

\* C1 witness: a directory run without --reprocess has ended; it skipped a.pdf,
\* processed before, and worked on its siblings.
C1_Witness ==
    /\ pc = "exited" /\ exit_code = 0 /\ ~reprocess
    /\ input_path = "/in"
    /\ "/in/a.pdf" \in completed
    /\ attempted = {"/in/b:1.png", "/in/sub/a.png"}
    /\ metadata_json.state = "ok"

\* An invocation with --reprocess whose input covers the recorded file F has ended normally.
ReprocessRun(F) ==
    /\ pc = "exited" /\ exit_code = 0 /\ reprocess
    /\ F \in StartKeys
    /\ InInput(F)

\* F's record after the run is the one this run produced, at the place of the old one.
Replaced(F) ==
    LET old == start_metadata.files_processed
        new == metadata_json.files_processed
        mine == CHOOSE i \in 1..Len(processed_files) : processed_files[i].file = F
    IN  /\ RecordsOf(new, F) = RecordsOf(old, F)
        /\ \A i \in RecordsOf(new, F) :
               new[i] = Stamped(processed_files[mine], metadata_json.last_updated)
        /\ processed_files[mine].output = MarkdownPath(F)

OneOcrFailure ==
    /\ pc = "exited" /\ exit_code = 0
    /\ input_path \in Dirs
    /\ files_to_process # <<>>
    /\ start_metadata.files_processed = <<>>
    /\ \A f \in Range(files_to_process) : api_calls[f] = 1
    /\ Cardinality(ocr_failed) = 1

\* C3: such a run saves exactly N-1 file records and exactly one error record, that
\* of the failed file, and process_directory returns (N-1, N), wherever the failed
\* file stands in the order.
C3_PartialFailure ==
    OneOcrFailure =>
        LET N == Len(files_to_process)
        IN  /\ Len(metadata_json.files_processed) = N - 1
            /\ FileSet(metadata_json.files_processed) = Range(files_to_process) \ ocr_failed
            /\ metadata_json.total_files = N - 1
            /\ Len(metadata_json.errors) = 1
            /\ metadata_json.errors[1].file \in ocr_failed
            /\ metadata_json.error_count = 1
            /\ returned = <<N - 1, N>>

\* C3 witness: three files, the middle one failed.
C3_Witness ==
    /\ OneOcrFailure
    /\ Len(files_to_process) = 3
    /\ ocr_failed = {files_to_process[2]}

\* C4 as stated: a directory run that is not interrupted attempts every file of
\* files_to_process, records every failure as an error record and writes the
\* metadata once at its end.
C4_AttemptsAll ==
    (pc = "exited" /\ input_path \in Dirs /\ files_to_process # <<>> /\ exit_code # 130) =>
        /\ attempted = Range(files_to_process)
        /\ meta_writes = 1
        /\ FileSet(errors) \cup FileSet(processed_files) = Range(files_to_process)
        /\ metadata_json.errors = errors

\* C5: after a save, the keys of files_processed are exactly those that were there
\* (E) and those the run processed (P); the records of E \ P are as they were and
\* each key of P carries the record of this run.
C5_Merge ==
    SavedRun =>
        LET E == start_metadata.files_processed
            P == processed_files
            M == metadata_json.files_processed
        IN  /\ FileSet(M) = FileSet(E) \cup FileSet(P)
            /\ \A i \in 1..Len(E) : E[i].file \notin FileSet(P) => E[i] \in Range(M)
            /\ \A i \in 1..Len(P) :
                   \A j \in RecordsOf(M, P[i].file) :
                       M[j] = Stamped(P[i], metadata_json.last_updated)

\* C5 witness: E = {a, b}, P = {b, sub/a}.
C5_Witness ==
    /\ SavedRun
    /\ StartKeys = {"/in/a.pdf", "/in/b:1.png"}
    /\ FileSet(processed_files) = {"/in/b:1.png", "/in/sub/a.png"}
    /\ clock > start_metadata.last_updated

\* C6: a readable metadata.json never holds two records with the same key,
\* total_files is the number of records and error_count the number of errors.
C6_MetadataInvariant ==
    metadata_json.state = "ok" =>
        /\ \A F \in Paths : Cardinality(RecordsOf(metadata_json.files_processed, F)) <= 1
        /\ metadata_json.total_files = Len(metadata_json.files_processed)
        /\ metadata_json.error_count = Len(metadata_json.errors)

\* C6 witness: a second run reprocessed a recorded file, added a new one and failed on a third.
C6_Witness ==
    /\ SavedRun /\ reprocess
    /\ StartKeys \cap FileSet(processed_files) # {}
    /\ FileSet(processed_files) \ StartKeys # {}
    /\ metadata_json.error_count = 1

\* C7 as stated: a single-file run that is not short-circuited writes the metadata
\* exactly once, on success and on failure; on failure the saved errors hold the
\* one error record and error_count is 1, the file records being untouched.
C7_SingleFilePersists ==
    (pc = "exited" /\ is_single /\ attempted # {} /\ exit_code = 0) =>
        /\ meta_writes = 1
        /\ processed_files = <<>> =>
               /\ Len(errors) = 1
               /\ metadata_json.errors = errors
               /\ metadata_json.error_count = 1
               /\ metadata_json.files_processed = start_metadata.files_processed

\* C8 as stated: an oversized file is rejected before any API call, gets no file
\* record, and the metadata the run leaves records it as an error (error_count 1
\* when it is the only failure); a file of exactly the ceiling is not rejected.
C8_Oversized ==
    (pc = "exited" /\ exit_code = 0) =>
        \A f \in attempted :
            /\ SizeRejected(f) <=> FileTooLarge(st_size[f])
            /\ st_size[f] = max_file_size_mb * MB => api_calls[f] = 1
            /\ SizeRejected(f) =>
                   /\ api_calls[f] = 0
                   /\ f \notin FileSet(processed_files)
                   /\ [file |-> f, error |-> "size"] \in Range(metadata_json.errors)
                   /\ Len(errors) = 1 => metadata_json.error_count = 1

\* The invocation has nothing to do: without --reprocess, its file is recorded, or
\* its directory holds no supported file that is not recorded.
NothingToDo ==
    /\ runs > 0
    /\ ~reprocess
    /\ IF is_single THEN input_path \in StartKeys
       ELSE /\ input_path \in Dirs
            /\ Range(get_supported_files(input_path)) \subseteq StartKeys

\* C9: an invocation with nothing to do ends at once, makes no API call, writes no
\* markdown file and leaves metadata.json as it was; the directory run returns (0, 0).
C9_NothingToDo ==
    NothingToDo =>
        /\ ~Running
        /\ exit_code = 0
        /\ NoApiCall
        /\ attempted = {}
        /\ md_writes = 0
        /\ meta_writes = 0
        /\ metadata_json = start_metadata
        /\ ~is_single => returned = <<0, 0>>

\* C9 witness: a directory whose only file is recorded, the metadata still holding
\* the error of the run before.
C9_Witness ==
    /\ NothingToDo
    /\ pc = "exited"
    /\ input_path = "/in/sub"
    /\ metadata_json.state = "ok"
    /\ metadata_json.errors # <<>>

\* C10 as stated: an invocation that finds metadata.json unparseable ends with a
\* non-zero status, with no API call and metadata.json as it was.
C10_Original ==
    (runs > 0 /\ start_metadata.state = "corrupt") =>
        /\ ~Running
        /\ exit_code = 1
        /\ NoApiCall
        /\ meta_writes = 0
        /\ metadata_json = start_metadata

\* C10 (amended): a single-file run, or a directory run whose discovery is not
\* empty, that finds metadata.json unparseable ends with status 1 before any API
\* call and without writing metadata.json; a directory run with empty discovery
\* never reads it and ends normally with (0, 0), leaving it as it was.
C10_CorruptFatal ==
    (runs > 0 /\ input_path \notin Missing /\ start_metadata.state = "corrupt") =>
        /\ ~Running
        /\ NoApiCall
        /\ attempted = {}
        /\ md_writes = 0
        /\ meta_writes = 0
        /\ metadata_json = start_metadata
        /\ IF is_single \/ get_supported_files(input_path) # <<>>
           THEN exit_code = 1
           ELSE exit_code = 0 /\ returned = <<0, 0>>

\* C10 witness: a directory run over three files stopped at the unparseable file.
C10_Witness ==
    /\ start_metadata.state = "corrupt"
    /\ pc = "exited"
    /\ input_path = "/in"
    /\ exit_code = 1

\* C11: every save sets errors to exactly the error list of the current run and
\* error_count to its length; an error saved by an earlier run is gone unless the
\* current run produced it again.
C11_ErrorsReplaced ==
    SavedRun =>
        /\ metadata_json.errors = errors
        /\ metadata_json.error_count = Len(errors)
        /\ \A e \in Range(start_metadata.errors) :
               e \in Range(metadata_json.errors) =>
                   e.file \in attempted /\ e.file \notin FileSet(processed_files)

\* C11 witness: a clean run has saved over the error a failing run had left.
C11_Witness ==
    /\ SavedRun
    /\ start_metadata.errors # <<>>
    /\ processed_files # <<>>
    /\ metadata_json.errors = <<>>

\* C12: a key of files_processed stays a key in every later readable
\* metadata.json, and a metadata.json that was written never disappears.
C12_KeysOnlyGrow ==
    [][ /\ metadata_json'.state = "ok" =>
               FileSet(metadata_json.files_processed)
                   \subseteq FileSet(metadata_json'.files_processed)
        /\ metadata_json.state # "absent" => metadata_json'.state # "absent" ]_vars

\* C12 witness: a directory run in which every call failed has saved, the keys of
\* the run before still there.
C12_Witness ==
    /\ SavedRun
    /\ StartKeys # {}
    /\ processed_files = <<>>
    /\ Len(errors) >= 2
    /\ FileSet(metadata_json.files_processed) = StartKeys

\* C15 as stated: a directory run that attempts a file and is not interrupted
\* writes metadata.json exactly once, after the last file of files_to_process has
\* been attempted, and never between two files.
C15_WritesOnceAtEnd ==
    input_path \in Dirs =>
        /\ pc \in {"process_file", "save_results"} => meta_writes = 0
        /\ meta_writes >= 1 => attempted = Range(files_to_process)
        /\ (pc = "exited" /\ attempted # {} /\ exit_code # 130) => meta_writes = 1

\* Position of a path in the ascending order of full paths.
PathIndex(p) == CHOOSE i \in TreeIdx : InputTree[i].path = p

\* The file has been dealt with: rejected, failed, or materialized and recorded.
Finished(f) ==
    \/ SizeRejected(f)
    \/ f \in ocr_failed
    \/ f \in FileSet(processed_files) /\ markdown[MarkdownPath(f)] # ""

AbortedRun ==
    /\ pc = "exited"
    /\ input_path \in Dirs
    /\ exit_code # 0
    /\ meta_writes = 0
    /\ md_writes >= 1

\* C17: such a run leaves metadata.json as it was before the run, while the
\* markdown output of every file it materialized is on disk.
C17_AbortKeepsOutputs ==
    AbortedRun =>
        /\ metadata_json = start_metadata
        /\ Len(processed_files) = md_writes
        /\ \A f \in FileSet(processed_files) :
               markdown[MarkdownPath(f)] \in FileSet(processed_files)

\* C17 witness: Ctrl-C after two files were materialized, on metadata of an earlier run.
C17_Witness ==
    /\ AbortedRun
    /\ exit_code = 130
    /\ md_writes = 2
    /\ start_metadata.state = "ok"

\* The recorded file F was attempted with --reprocess and the attempt failed.
FailedReprocess(F) ==
    /\ reprocess
    /\ F \in StartKeys
    /\ F \in attempted
    /\ SizeRejected(F) \/ F \in ocr_failed

\* C18: after a failed reprocess of F, a readable metadata.json still holds F's
\* record as it was before the run (file, size, output, last_processed).
C18_FailedReprocessKeepsRecord ==
    \A F \in Paths :
        (FailedReprocess(F) /\ metadata_json.state = "ok") =>
            /\ RecordsOf(metadata_json.files_processed, F)
                   = RecordsOf(start_metadata.files_processed, F)
            /\ \A i \in RecordsOf(start_metadata.files_processed, F) :
                   metadata_json.files_processed[i] = start_metadata.files_processed[i]

\* C18 witness: a later directory run with --reprocess failed on a.pdf, saved a
\* sibling, and a.pdf's record is the old one.
C18_Witness ==
    /\ SavedRun
    /\ FailedReprocess("/in/a.pdf")
    /\ processed_files # <<>>
    /\ metadata_json.last_updated > start_metadata.last_updated
    /\ start_metadata.last_updated >= 0

\* C13: an invocation whose input path is neither a file nor a directory ends with
\* status 1 without resolving (so without creating) an output directory, without
\* loading or writing metadata.json, without a markdown file and without an API call.
C13_InputNotFound ==
    (runs > 0 /\ input_path \in Missing) =>
        /\ ~Running
        /\ exit_code = 1
        /\ ~output_resolved
        /\ meta_loads = 0
        /\ meta_writes = 0
        /\ metadata_json = start_metadata
        /\ NoApiCall
        /\ attempted = {}
        /\ md_writes = 0

\* C13 witness: the missing path is given after a run that left records behind.
C13_Witness ==
    /\ pc = "exited"
    /\ input_path \in Missing
    /\ exit_code = 1
    /\ metadata_json.state = "ok"
    /\ metadata_json.files_processed # <<>>

\* The regular files of FsTree with a supported extension, in any letter case.
SupportedIds == {1, 3, 4}

\* The files a call on the current tree has to return, as a set.
Expected ==
    {FsTree[e].parts : e \in {x \in Range(discovery.created) \cap SupportedIds :
                                 IsUnder(FsTree[x].parts, discovery.root)}}

\* Every call returned exactly the expected files, each once, and two calls on
\* the unchanged tree returned the same list.
ExactAndRepeatable ==
    /\ \A k \in 1..Len(discovery.calls) :
           /\ Range(discovery.calls[k].files) = Expected
           /\ Len(discovery.calls[k].files) = Cardinality(Expected)
    /\ Len(discovery.calls) = 2 => discovery.calls[1].files = discovery.calls[2].files

\* The list is ascending under the order less.
Ascending(files, less(_, _)) ==
    \A i, j \in 1..Len(files) : i < j => less(files[i], files[j])

\* C14 as stated: get_supported_files returns exactly the regular files below the
\* root with a supported extension in any letter case, ascending by the full path
\* string, and two calls on an unchanged tree return the same list.
C14_Original ==
    /\ ExactAndRepeatable
    /\ \A k \in 1..Len(discovery.calls) :
           Ascending(discovery.calls[k].files, LAMBDA p, q : StrLess(str(p), str(q)))

\* C14 (amended): the same, with the list ascending in the order of path objects,
\* which compares the lists of path components: /in/a/x.PNG comes before /in/a.pdf.
C14_Discovery ==
    /\ ExactAndRepeatable
    /\ \A k \in 1..Len(discovery.calls) :
           Ascending(discovery.calls[k].files, PathLess)

\* C14 witness: the whole tree exists, and two calls on /in that were listed the
\* directory in opposite orders returned the three supported files.
C14_Witness ==
    /\ Len(discovery.created) = Len(FsTree)
    /\ discovery.root = <<name_in>>
    /\ Len(discovery.calls) = 2
    /\ discovery.calls[1].readdir # discovery.calls[2].readdir
    /\ Len(discovery.calls[2].files) = 3

\* Both saves have finished.
BothSaved == \A w \in Writers : writers.at[w] = "done"

\* The keys in metadata.json after the saves.
SavedKeys == FileSet(writers.file.files_processed)

\* C19: when the two saves do not overlap, every record either run saved and every
\* record that was there before is in metadata.json; when both runs load before
\* either writes, the file holds what was there before and the records of the run
\* that wrote last, and nothing else.
C19_LostUpdate ==
    BothSaved =>
        IF writers.overlapped
        THEN SavedKeys = FileSet(writers.before.files_processed)
                            \cup FileSet(writers.files_processed[writers.saved[2]])
        ELSE SavedKeys = FileSet(writers.before.files_processed)
                            \cup FileSet(writers.files_processed["run1"])
                            \cup FileSet(writers.files_processed["run2"])

\* C19 witness: both runs loaded before either wrote, and a record the first
\* writer saved is not in metadata.json.
C19_Witness ==
    /\ BothSaved
    /\ writers.overlapped
    /\ \E F \in FileSet(writers.files_processed[writers.saved[1]]) : F \notin SavedKeys

\* C20: after save_results, images/ exists only if an image file was written;
\* without --include-images there is neither directory nor image file; and every
\* image reference in the markdown names an image file that was written.
C20_LazyImages ==
    materialized.at = "done" =>
        /\ materialized.images_dir => materialized.image_files # {}
        /\ ~materialized.include_images =>
               ~materialized.images_dir /\ materialized.image_files = {}
        /\ Range(materialized.markdown_content) \subseteq materialized.image_files

\* C21: after a directory run that saved its records, the output path of every
\* record of the run names a markdown file written from that record's own source
\* file, and two records of the run never have the same output path.
C21_NoClobber ==
    (SavedRun /\ ~is_single) =>
        /\ \A i \in 1..Len(processed_files) :
               markdown[processed_files[i].output] = processed_files[i].file
        /\ \A i, j \in 1..Len(processed_files) :
               processed_files[i].output = processed_files[j].output => i = j

\* C22: when a call on an OCRProcessor has saved, save_metadata was given the
\* records and errors of that call only, metadata.json of its output directory
\* gained no record and holds no error for a file the call did not handle, and
\* the number of errors reported is attempted_count - success_count.
C22_ScopedAccumulators ==
    (instance.at = "idle" /\ instance.saved) =>
        /\ instance.processed_files = instance.call_files
        /\ instance.errors = instance.call_errors
        /\ FileSet(instance.metadata[instance.output_dir].files_processed)
               \subseteq FileSet(instance.before.files_processed)
                             \cup Range(instance.files_to_process)
        /\ FileSet(instance.metadata[instance.output_dir].errors)
               \subseteq Range(instance.files_to_process)
        /\ Len(instance.errors) = Len(instance.files_to_process) - instance.success_count

============================================================================
